---- MODULE Spec2Model ----
(***************************************************************************)
(* Model of find_extract_IGMD.py: the asyncio run that walks a scan        *)
(* directory, hands every .cbz/.cbr file to process_archive, and lets      *)
(* process_archive fan out one process_image_in_archive task per           *)
(* recognised entry; loose images go to process_image, and with the        *)
(* log_non_igmd option every file of the walk gets a log_non_igmd_files    *)
(* task.                                                                   *)
(*                                                                         *)
(* Execution model.  asyncio runs coroutines on one event-loop thread: the *)
(* code between two awaits of a coroutine runs without any other coroutine *)
(* running (variable loop names the coroutine that holds the loop).  The   *)
(* aiofiles and asyncio.to_thread calls are executed by pool threads, so   *)
(* each of them is a step of its own that interleaves freely with the loop *)
(* and with the other pool threads.                                        *)
(*                                                                         *)
(* Strings are sequences of tokens; Lower maps a token to its lower-case   *)
(* form, so that the case-insensitive tests of the code are computed.      *)
(***************************************************************************)
EXTENDS Naturals, Integers, FiniteSets, Sequences, TLC

\* ------------------------------------------------------------------ bounds
NumArchives == 2
MaxTasks == 2
MaxPre == 1
NumLogFiles == 2
NumBenchEntries == 11
MaxPoolEntries == 3
MaxWorkers == 2

\* asyncio.Semaphore(10) and chunk_size=100 of the benchmark
SemaphoreCapacity == 10
ChunkSize == 100

\* ------------------------------------------------------------------ strings
Lower(tok) ==
    CASE tok = "CHAPTER" -> "chapter"
      [] tok = "Merged"  -> "merged"
      [] tok = "PNG"     -> "png"
      [] tok = "CBR"     -> "cbr"
      [] OTHER           -> tok

LowerSeq(s) == [i \in DOMAIN s |-> Lower(s[i])]

Contains(s, w) == \E i \in DOMAIN s : s[i] = w

\* ------------------------------------------------------------------ inputs
Archives == 1 .. NumArchives

\* archive files found by the walk: stem (file name without extension) and
\* extension; archive i lies in source directory i, so equal names are
\* different files
ArchiveNames == { [stem |-> <<"Merged", "_1">>, ext |-> "cbz"],
                  [stem |-> <<"CHAPTER", "_1">>, ext |-> "CBR"],
                  [stem |-> <<"vol", "_1">>, ext |-> "cbz"] }

\* members of an archive: internal folder, base name (stem, ext), whether
\* the bytes carry generation metadata, and whether the codec can read them
EntryKinds == { "K1", "K2", "K3", "K4", "K5" }

Kind(k) ==
    CASE k = "K1" -> [folder |-> "a", stem |-> "p1", ext |-> "jpg", meta |-> TRUE,  readable |-> TRUE]
      [] k = "K2" -> [folder |-> "a", stem |-> "p2", ext |-> "jpg", meta |-> FALSE, readable |-> TRUE]
      [] k = "K3" -> [folder |-> "b", stem |-> "p1", ext |-> "jpg", meta |-> TRUE,  readable |-> TRUE]
      [] k = "K4" -> [folder |-> "a", stem |-> "p3", ext |-> "PNG", meta |-> TRUE,  readable |-> FALSE]
      [] k = "K5" -> [folder |-> "a", stem |-> "notes", ext |-> "txt", meta |-> FALSE, readable |-> TRUE]

Tasks == Archives \X EntryKinds

\* the files the walk finds in the scan directory besides the archives
\* above; with logging enabled process_files creates a
\* log_non_igmd_files task for each of them
LogFiles == 1 .. NumLogFiles

\* what such a file can be: source directory, file name split at the dots,
\* whether its bytes carry generation metadata, whether it can be opened
\* for reading, and its length in blocks
ScanKinds == { "F1", "F2", "F3", "F4", "F5", "F6", "F7" }

Scan(k) ==
    CASE k = "F1" -> [dir |-> "d1", name |-> << "a", "png" >>, meta |-> TRUE,  readable |-> TRUE,  size |-> 2]
      [] k = "F2" -> [dir |-> "d2", name |-> << "a", "png" >>, meta |-> TRUE,  readable |-> TRUE,  size |-> 1]
      [] k = "F3" -> [dir |-> "d1", name |-> << "b", "PNG" >>, meta |-> FALSE, readable |-> TRUE,  size |-> 1]
      [] k = "F4" -> [dir |-> "d1", name |-> << "c", "jpg" >>, meta |-> TRUE,  readable |-> FALSE, size |-> 1]
      [] k = "F5" -> [dir |-> "d1", name |-> << "vol", "_1", "cbz" >>, meta |-> FALSE, readable |-> TRUE, size |-> 1]
      [] k = "F6" -> [dir |-> "d1", name |-> << "notes", "txt" >>, meta |-> FALSE, readable |-> TRUE, size |-> 1]
      [] k = "F7" -> [dir |-> "d1", name |-> << "png" >>, meta |-> TRUE, readable |-> TRUE, size |-> 1]

\* the image entries of the CBZ file the benchmark is run on
BenchEntries == 1 .. NumBenchEntries

\* paths of the command line: the components of the path, and whether the
\* string was given with a trailing separator
PathComps == { << "s" >>, << "s", "out" >>, << "d" >>, << "d", "logs" >> }

Paths == [comps : PathComps, slash : BOOLEAN]

NoLog == [comps |-> << >>, slash |-> FALSE]

DefaultArgs ==
    [scan |-> [comps |-> << "s" >>, slash |-> FALSE],
     dest |-> [comps |-> << "d" >>, slash |-> FALSE],
     log |-> NoLog,
     scan_exists |-> TRUE,
     dest_exists |-> TRUE]

NoDir == [base |-> << >>, n |-> 0]
NoTask == << 0, "none" >>
\* the content of a file that holds no bytes
Empty == [of |-> NoTask, meta |-> FALSE]

VARIABLES
    bytesIO,    \* the name BytesIO resolves in the module's globals
    input,      \* per archive: name, corrupt, entries
    run,        \* the run: "running", "returned", "unwinding", "raised", ...
    loop,       \* the coroutine running on the event loop: {} or one archive
    apc,        \* per archive: position of process_archive
    count,      \* per archive: the probe counter
    snap,       \* per archive: directories that existed when the probe began
    sub_dir,    \* per archive: the resolved destination directory
    fresh,      \* per archive: makedirs created the directory
    verdict,    \* per archive: igmd_found as returned
    progress,   \* per archive: progress_bar.n
    dirs,       \* directories under dest_dir
    fs,         \* files under dest_dir: path -> [ino, data]
    tpc,        \* per entry task: position of process_image_in_archive
    content,    \* per entry task: bytes returned by archive.read
    hnd,        \* per entry task: inode of the file its open handle refers to
    ret,        \* per entry task: value of the return statement reached
    wrote,      \* per entry task: destination paths it has written
    logInput,   \* per scanned file: kind, and for its log task: tool, big
    lpc,        \* per log task: position of log_non_igmd_files
    lbuf,       \* per log task: text held in the buffer of its open log_f
    log,        \* the log file: the pieces appended so far, in order
    ipc,        \* per scanned file: position of process_image
    icontent,   \* per scanned file: bytes read from the source file
    iret,       \* per scanned file: process_image returned True
    iwrote,     \* per scanned file: process_image has written its dest_path
    dfs,        \* files directly under dest_dir: name -> blocks
    args,       \* the command line: scan_dir, dest_dir, log_file; which exist
    bmethod,    \* benchmark: the method that is run
    bpc,        \* benchmark: per entry, position of its task
    sem,        \* benchmark: value of the semaphore
    orphan,     \* entry tasks cancelled while a pool thread opens their temp file
    counts,     \* benchmark: the counts dictionary shared by the worker threads
    tmp,        \* benchmark: per entry, the key and the value its thread has loaded
    workers     \* benchmark: os.cpu_count(), the size of the thread pool

vars == << bytesIO, input, run, loop, apc, count, snap, sub_dir, fresh,
           verdict, progress, dirs, fs, tpc, content, hnd, ret, wrote,
           logInput, lpc, lbuf, log, ipc, icontent, iret, iwrote, dfs,
           args, bmethod, bpc, sem, orphan, counts, tmp, workers >>

poolVars == << counts, tmp, workers >>

\* ------------------------------------------------------ pure parts of code
ImageExts == { "jpg", "jpeg", "png", "webp" }

\* line 135: file.lower().split('.')[-1]
Ext(name) == Lower(name[Len(name)])

\* line 137
IsImageFile(name) == Ext(name) \in ImageExts

\* line 139
IsArchiveFile(name) == Ext(name) \in { "cbz", "cbr" }

\* the bytes of scanned file f
Data(f) == [i \in 1 .. Scan(logInput[f].kind).size |-> logInput[f].kind]

\* os.path.join(dest_dir, os.path.basename(file_path))
img_dest_path(f) == Scan(logInput[f].kind).name

\* ImageGenerationMetadata.read_metadata(file_path) raises when the file
\* cannot be opened (get_file_type, line 88)
read_metadata_raises(f) == ~Scan(logInput[f].kind).readable

\* ImageGenerationMetadata.contains_image_generation_metadata(file_path) on
\* a scanned file: an exception of read_metadata is caught and gives False
\* lines 159-183 of diffusion_scanner.py: what a call ends with: an
\* exception that leaves it, or the value it returns
ClassifierOutcome_uncaught(f) ==
    [raised |-> read_metadata_raises(f),
     value |-> ~read_metadata_raises(f) /\ Scan(logInput[f].kind).meta]

ClassifierOutcome(f) ==
    [raised |-> FALSE,
     value |-> IF read_metadata_raises(f) THEN FALSE ELSE Scan(logInput[f].kind).meta]

SrcHasMeta_always(f) == TRUE

SrcHasMeta(f) == ClassifierOutcome(f).value

\* file_path.lower().endswith('.cbz') / ('.cbr')
SupportedArchive(name) == Lower(name.ext) \in { "cbz", "cbr" }

\* "merged" in file_name.lower() or "chapter" in file_name.lower()
IsTrigger(stem) ==
    Contains(LowerSeq(stem), "merged") \/ Contains(LowerSeq(stem), "chapter")

\* f"{sub_dir_base}-{count}"; n = 0 stands for the plain os.path.join(dest_dir, file_name)
Dir(stem, n) == [base |-> stem, n |-> n]

FirstCount == 1

NextCount_skip(c) == c + 2

NextCount(c) == c + 1

file_names_all(a) == input[a].entries

\* name.lower().endswith(('.jpg', '.jpeg', '.png', '.webp')) over archive.namelist()
file_names(a) == { k \in input[a].entries : Lower(Kind(k).ext) \in ImageExts }

\* os.path.join(sub_dir, "temp_image")
temp_file_path(t) == [dir |-> sub_dir[t[1]], name |-> << "temp_image" >>]

\* os.path.join(sub_dir, f"{os.path.basename(sub_dir)}-{os.path.basename(name)}")
dest_path(t) ==
    [dir |-> sub_dir[t[1]],
     name |-> << sub_dir[t[1]], Kind(t[2]).stem, Kind(t[2]).ext >>]

\* the bytes of entry k of archive a
Bytes(t) == [of |-> t, meta |-> Kind(t[2]).meta]

\* ImageGenerationMetadata.contains_image_generation_metadata(path): a
\* missing file makes read_metadata raise, which is caught and gives False;
\* a file holding no bytes has no recognised header and no metadata
contains_image_generation_metadata(p) ==
    /\ p \in DOMAIN fs
    /\ fs[p].data # Empty
    /\ fs[p].data.meta

\* ----------------------------------------------------------- file system
\* open(path, 'wb'): creates the file, or truncates the existing one
OpenWb(p, t) ==
    IF p \in DOMAIN fs
    THEN [fs EXCEPT ![p].data = Empty]
    ELSE [q \in DOMAIN fs \cup {p} |->
              IF q = p THEN [ino |-> t, data |-> Empty] ELSE fs[q]]

\* write through a handle: reaches the path only while the path still names
\* the inode the handle was opened on
WriteVia(p, ino, bytes, f) ==
    IF p \in DOMAIN f /\ f[p].ino = ino
    THEN [f EXCEPT ![p].data = bytes]
    ELSE f

\* if os.path.exists(p): os.remove(p)
RemoveIfExists(p) == [q \in DOMAIN fs \ {p} |-> fs[q]]

\* ------------------------------------------------------------- event loop
\* a coroutine starts a stretch of code when the loop is free and goes on
\* with it, up to its next await, while it holds the loop
OnLoop_threaded(a, starting) == TRUE

OnLoop(a, starting) == IF starting THEN loop = {} ELSE loop = {a}

InFlight == { "extract", "open_temp", "write_temp", "classify", "copy",
              "finally" }

InTry == InFlight \ { "extract" }

Children(a) == { t \in Tasks : t[1] = a /\ tpc[t] # "absent" }

\* ------------------------------------------------------------------ Init
EntrySets(K) == { S \in SUBSET K : Cardinality(S) <= MaxTasks }

Inputs(N, K) == { r \in [name : N, corrupt : BOOLEAN, entries : EntrySets(K)] :
                      r.corrupt => r.entries = {} }

RECURSIVE SumEntries(_, _)
SumEntries(inp, S) ==
    IF S = {} THEN 0
    ELSE LET a == CHOOSE x \in S : TRUE
         IN Cardinality(inp[a].entries) + SumEntries(inp, S \ {a})

\* archives are told apart by their source directory only, so the inputs
\* are taken in one fixed order
KindCode(k) ==
    CASE k = "K1" -> 1 [] k = "K2" -> 2 [] k = "K3" -> 4 [] k = "K4" -> 8 [] k = "K5" -> 16

RECURSIVE SetCode(_)
SetCode(S) ==
    IF S = {} THEN 0
    ELSE LET k == CHOOSE x \in S : TRUE IN KindCode(k) + SetCode(S \ {k})

Rank(r) ==
    (Cardinality(r.entries) * 32 + SetCode(r.entries)) * 8
    + (CASE r.name.stem[1] = "Merged" -> 0 [] r.name.stem[1] = "CHAPTER" -> 2 [] OTHER -> 4)
    + (IF r.corrupt THEN 1 ELSE 0)

PreDirs(P) == { Dir(nm.stem, n) : nm \in ArchiveNames, n \in P }

\* no process_image task has run
InitImgIdle ==
    /\ icontent = [f \in LogFiles |-> << >>]
    /\ iret = [f \in LogFiles |-> FALSE]
    /\ iwrote = [f \in LogFiles |-> FALSE]
    /\ dfs = << >>

\* a scan directory that holds nothing but archives
InitLogIdle ==
    /\ logInput = [f \in LogFiles |-> [kind |-> "F3", tool |-> "ok", big |-> FALSE]]
    /\ lpc = [f \in LogFiles |-> "absent"]
    /\ lbuf = [f \in LogFiles |-> << >>]
    /\ log = << >>
    /\ ipc = [f \in LogFiles |-> "absent"]
    /\ InitImgIdle

\* thread_pool_method is not run
Keys == { "found", "not_found", "non_image" }

NoLoad == [key |-> "none", val |-> 0]

InitPoolIdle ==
    /\ counts = [k \in Keys |-> 0]
    /\ tmp = [e \in BenchEntries |-> NoLoad]
    /\ workers = 1

\* neither the command line nor the benchmark is looked at
InitAuxIdle ==
    /\ args = DefaultArgs
    /\ bmethod = "none"
    /\ bpc = [e \in BenchEntries |-> "none"]
    /\ sem = SemaphoreCapacity
    /\ InitPoolIdle
    /\ orphan = {}

\* no coroutine of process_files has run yet
InitIdle ==
    /\ loop = {}
    /\ count = [a \in Archives |-> 0]
    /\ snap = [a \in Archives |-> {}]
    /\ sub_dir = [a \in Archives |-> NoDir]
    /\ fresh = [a \in Archives |-> FALSE]
    /\ verdict = [a \in Archives |-> FALSE]
    /\ progress = [a \in Archives |-> 0]
    /\ fs = << >>
    /\ tpc = [t \in Tasks |-> "absent"]
    /\ content = [t \in Tasks |-> Empty]
    /\ hnd = [t \in Tasks |-> NoTask]
    /\ ret = [t \in Tasks |-> FALSE]
    /\ wrote = [t \in Tasks |-> {}]

\* process_files has been started by asyncio.run
InitRest ==
    /\ run = "running"
    /\ InitAuxIdle
    /\ InitIdle

InitWith(N, K) ==
    /\ InitLogIdle
    /\ InitRest
    /\ bytesIO \in BOOLEAN
    /\ input \in { inp \in [Archives -> Inputs(N, K)] :
                       /\ SumEntries(inp, Archives) <= MaxTasks
                       /\ \A a \in Archives : a + 1 \in Archives =>
                              Rank(inp[a]) >= Rank(inp[a + 1]) }
    /\ apc = [a \in Archives |-> "pending"]
    /\ \E P \in SUBSET (1 .. MaxPre) : dirs = PreDirs(P)

Init == InitWith(ArchiveNames, EntryKinds)

\* scan directories in which directory resolution is studied: archives of
\* one trigger name and one plain name, holding a readable image with
\* metadata and/or an unreadable one
RunNames == { nm \in ArchiveNames : nm.ext = "cbz" }

RunKinds == { "K1", "K4" }

InitRun == InitWith(RunNames, RunKinds)

\* the archive slot of a scan directory that holds no such file
NoArchive == [name |-> [stem |-> << >>, ext |-> "none"], corrupt |-> FALSE, entries |-> {}]

\* a scan directory that holds one archive
InitArchive ==
    /\ InitLogIdle
    /\ InitRest
    /\ bytesIO \in BOOLEAN
    /\ \E r \in Inputs(ArchiveNames, EntryKinds) :
           input = [a \in Archives |-> IF a = 1 THEN r ELSE NoArchive]
    /\ apc = [a \in Archives |-> IF a = 1 THEN "pending" ELSE "absent"]
    /\ \E P \in SUBSET (1 .. MaxPre) : dirs = PreDirs(P)

\* a scan directory without files
InitNoScan ==
    /\ InitLogIdle
    /\ InitIdle
    /\ bytesIO = TRUE
    /\ input = [a \in Archives |-> NoArchive]
    /\ apc = [a \in Archives |-> "absent"]
    /\ dirs = {}

\* lines 244-261: the script has read its command line and is about to
\* call validate_directories
InitValidate ==
    /\ InitNoScan
    /\ run = "validating"
    /\ args \in [scan : Paths, dest : Paths, log : Paths \cup { NoLog },
                 scan_exists : BOOLEAN, dest_exists : BOOLEAN]
    /\ bmethod = "none"
    /\ bpc = [e \in BenchEntries |-> "none"]
    /\ sem = SemaphoreCapacity
    /\ InitPoolIdle
    /\ orphan = {}

\* the benchmark: one of the two asyncio methods is about to list a CBZ
\* file that holds n image entries; the main script is not run
InitBench ==
    /\ InitNoScan
    /\ run = "absent"
    /\ args = DefaultArgs
    /\ bmethod \in { "async_io", "chunking" }
    /\ \E n \in BenchEntries : bpc = [e \in BenchEntries |-> IF e <= n THEN "listed" ELSE "none"]
    /\ sem = SemaphoreCapacity
    /\ InitPoolIdle
    /\ orphan = {}

\* -------------------------------------------------------- process_archive
archVars == << apc, count, snap, sub_dir, fresh, verdict >>
taskVars == << tpc, content, hnd, ret, wrote >>
logVars == << logInput, lpc, lbuf, log >>
imgVars == << ipc, icontent, iret, iwrote, dfs >>
auxVars == << args, bmethod, bpc, sem, orphan, poolVars >>

\* lines 54-68: once the pool thread has read the archive file, open the
\* container, then either take the plain directory or start probing
\* base-1, base-2, ...
\* lines 57-62: the extension is not .cbz/.cbr, the name BytesIO does not
\* resolve, or the codec rejects the container
OpenFails_never(a) == FALSE

OpenFails(a) == ~SupportedArchive(input[a].name) \/ ~bytesIO \/ input[a].corrupt

OpenArchive(a) ==
    /\ run = "running"
    /\ apc[a] = "pending"
    /\ OnLoop(a, TRUE)
    /\ IF OpenFails(a)
       THEN /\ apc' = [apc EXCEPT ![a] = "raised"]
            /\ loop' = {}
            /\ UNCHANGED << count, snap, sub_dir >>
       ELSE /\ loop' = {a}
            /\ IF IsTrigger(input[a].name.stem)
               THEN /\ apc' = [apc EXCEPT ![a] = "probing"]
                    /\ count' = [count EXCEPT ![a] = FirstCount]
                    /\ snap' = [snap EXCEPT ![a] = dirs]
                    /\ UNCHANGED sub_dir
               ELSE /\ apc' = [apc EXCEPT ![a] = "resolved"]
                    /\ sub_dir' = [sub_dir EXCEPT ![a] = Dir(input[a].name.stem, 0)]
                    /\ snap' = [snap EXCEPT ![a] = dirs]
                    /\ UNCHANGED count
    /\ UNCHANGED << auxVars, logVars, imgVars, bytesIO, input, run, fresh, verdict, progress, dirs, fs, taskVars >>

\* lines 69-71: one test of the while loop
Probe(a) ==
    /\ run = "running"
    /\ apc[a] = "probing"
    /\ OnLoop(a, FALSE)
    /\ IF Dir(input[a].name.stem, count[a]) \in dirs
       THEN /\ count' = [count EXCEPT ![a] = NextCount(count[a])]
            /\ UNCHANGED << apc, sub_dir >>
       ELSE /\ sub_dir' = [sub_dir EXCEPT ![a] = Dir(input[a].name.stem, count[a])]
            /\ apc' = [apc EXCEPT ![a] = "resolved"]
            /\ UNCHANGED count
    /\ UNCHANGED << auxVars, logVars, imgVars, bytesIO, input, run, loop, snap, fresh, verdict, progress,
                    dirs, fs, taskVars >>

\* os.makedirs(d, exist_ok=True): the directories that exist afterwards
makedirs_skipped(d) == dirs

makedirs(d) == dirs \cup { d }

\* line 75: os.makedirs(sub_dir, exist_ok=True)
MakeDirs(a) ==
    /\ run = "running"
    /\ apc[a] = "resolved"
    /\ OnLoop(a, FALSE)
    /\ dirs' = makedirs(sub_dir[a])
    /\ fresh' = [fresh EXCEPT ![a] = sub_dir[a] \notin dirs]
    /\ apc' = [apc EXCEPT ![a] = "dircreated"]
    /\ UNCHANGED << auxVars, logVars, imgVars, bytesIO, input, run, loop, count, snap, sub_dir, verdict,
                    progress, fs, taskVars >>

\* lines 78-85: list the entries, create one task per recognised entry and
\* await their gather
Spawn(a) ==
    /\ run = "running"
    /\ apc[a] = "dircreated"
    /\ OnLoop(a, FALSE)
    /\ tpc' = [t \in Tasks |->
                  IF t[1] = a /\ t[2] \in file_names(a) THEN "extract" ELSE tpc[t]]
    /\ apc' = [apc EXCEPT ![a] = "gathering"]
    /\ loop' = {}
    /\ UNCHANGED << auxVars, logVars, imgVars, bytesIO, input, run, count, snap, sub_dir, fresh, verdict,
                    progress, dirs, fs, content, hnd, ret, wrote >>

\* line 85: gather(*tasks) hands back the results once every task has
\* returned
GatherDone_first(a) == Children(a) = {} \/ \E t \in Children(a) : tpc[t] = "done"

GatherDone(a) == \A t \in Children(a) : tpc[t] = "done"

\* lines 85-95: every task has returned; igmd_found = any(results)
Aggregate(a) ==
    /\ run = "running"
    /\ apc[a] = "gathering"
    /\ OnLoop(a, TRUE)
    /\ GatherDone(a)
    /\ verdict' = [verdict EXCEPT ![a] = \E t \in Children(a) : ret[t]]
    /\ apc' = [apc EXCEPT ![a] = "closed"]
    /\ UNCHANGED << auxVars, logVars, imgVars, bytesIO, input, run, loop, count, snap, sub_dir, fresh,
                    progress, dirs, fs, taskVars >>

\* line 85: gather hands the first exception of a task to process_archive,
\* which has no handler; the other tasks are left running
GatherRaises(a) ==
    /\ run = "running"
    /\ apc[a] = "gathering"
    /\ OnLoop(a, TRUE)
    /\ \E t \in Children(a) : tpc[t] = "raised"
    /\ apc' = [apc EXCEPT ![a] = "raised"]
    /\ UNCHANGED << auxVars, logVars, imgVars, bytesIO, input, run, loop, count, snap, sub_dir, fresh,
                    verdict, progress, dirs, fs, taskVars >>

\* ----------------------------------------------- process_image_in_archive
\* line 101: archive.read(name) on a pool thread, before the try statement:
\* an entry the codec cannot read makes the exception leave the task
Extract(t) ==
    /\ run = "running"
    /\ tpc[t] = "extract"
    /\ IF Kind(t[2]).readable
       THEN /\ content' = [content EXCEPT ![t] = Bytes(t)]
            /\ tpc' = [tpc EXCEPT ![t] = "open_temp"]
       ELSE /\ tpc' = [tpc EXCEPT ![t] = "raised"]
            /\ UNCHANGED content
    /\ UNCHANGED << auxVars, logVars, imgVars, bytesIO, input, run, loop, archVars, progress, dirs, fs,
                    hnd, ret, wrote >>

\* line 105: aiofiles.open(temp_file_path, 'wb')
OpenTemp(t) ==
    /\ run = "running"
    /\ tpc[t] = "open_temp"
    /\ fs' = OpenWb(temp_file_path(t), t)
    /\ hnd' = [hnd EXCEPT ![t] = fs'[temp_file_path(t)].ino]
    /\ tpc' = [tpc EXCEPT ![t] = "write_temp"]
    /\ UNCHANGED << auxVars, logVars, imgVars, bytesIO, input, run, loop, archVars, progress, dirs,
                    content, ret, wrote >>

\* lines 105-106: write(content) and the close at the end of the with block
WriteTemp(t) ==
    /\ run = "running"
    /\ tpc[t] = "write_temp"
    /\ fs' = WriteVia(temp_file_path(t), hnd[t], content[t], fs)
    /\ tpc' = [tpc EXCEPT ![t] = "classify"]
    /\ UNCHANGED << auxVars, logVars, imgVars, bytesIO, input, run, loop, archVars, progress, dirs,
                    content, hnd, ret, wrote >>

\* line 108: the classifier reads whatever temp_file_path names now
Classify(t) ==
    /\ run = "running"
    /\ tpc[t] = "classify"
    /\ OnLoop(t[1], TRUE)
    /\ tpc' = [tpc EXCEPT ![t] =
                  IF contains_image_generation_metadata(temp_file_path(t))
                  THEN "copy" ELSE "finally"]
    /\ UNCHANGED << auxVars, logVars, imgVars, bytesIO, input, run, loop, archVars, progress, dirs, fs,
                    content, hnd, ret, wrote >>

\* lines 109-113: the matched entry is written to dest_path (open 'wb',
\* write(content), close), then return True
\* line 112: out_f.write(content), the bytes held by the task
CopySource_temp(t) ==
    IF temp_file_path(t) \in DOMAIN fs THEN fs[temp_file_path(t)].data ELSE Empty

CopySource(t) == content[t]

Copy(t) ==
    /\ run = "running"
    /\ tpc[t] = "copy"
    /\ fs' = WriteVia(dest_path(t), OpenWb(dest_path(t), t)[dest_path(t)].ino, CopySource(t), OpenWb(dest_path(t), t))
    /\ wrote' = [wrote EXCEPT ![t] = @ \cup { dest_path(t) }]
    /\ ret' = [ret EXCEPT ![t] = TRUE]
    /\ tpc' = [tpc EXCEPT ![t] = "finally"]
    /\ UNCHANGED << auxVars, logVars, imgVars, bytesIO, input, run, loop, archVars, progress, dirs,
                    content, hnd >>

\* lines 116-121: the finally block, then the task returns
Finally(t) ==
    /\ run = "running"
    /\ tpc[t] = "finally"
    /\ OnLoop(t[1], TRUE)
    /\ fs' = RemoveIfExists(temp_file_path(t))
    /\ progress' = [progress EXCEPT ![t[1]] = @ + 1]
    /\ tpc' = [tpc EXCEPT ![t] = "done"]
    /\ UNCHANGED << auxVars, logVars, imgVars, bytesIO, input, run, loop, archVars, dirs, content, hnd,
                    ret, wrote >>

\* ---------------------------------------------------- log_non_igmd_files
restVars == << bytesIO, input, loop, archVars, progress, dirs, fs, taskVars >>

\* line 153: files with generation metadata are not logged
CheckLogged(f) ==
    /\ run = "running"
    /\ lpc[f] = "check"
    /\ OnLoop(0, TRUE)
    /\ lpc' = [lpc EXCEPT ![f] =
                  IF ClassifierOutcome(f).raised THEN "raised"
                  ELSE IF SrcHasMeta(f) THEN "done" ELSE "tool"]
    /\ UNCHANGED << auxVars, restVars, imgVars, run, logInput, lbuf, log >>

\* lines 169-180: spawn exiftool and wait for it; a failed spawn raises out
\* of the task, a non-zero exit is reported on stderr, a zero exit goes on
\* to open the log file for appending
RunTool(f) ==
    /\ run = "running"
    /\ lpc[f] = "tool"
    /\ lpc' = [lpc EXCEPT ![f] =
                  CASE logInput[f].tool = "nospawn" -> "raised"
                    [] logInput[f].tool = "nonzero" -> "done"
                    [] OTHER -> "write_out"]
    /\ UNCHANGED << auxVars, restVars, imgVars, run, logInput, lbuf, log >>

\* log_f.write(text): the text goes to the buffer of this task's file
\* object; a text larger than the buffer is handed to the operating system
\* at once, which appends it to the file
BufferedWrite(f, piece, big) ==
    IF big
    THEN /\ log' = log \o lbuf[f] \o << << f, piece >> >>
         /\ lbuf' = [lbuf EXCEPT ![f] = << >>]
    ELSE /\ lbuf' = [lbuf EXCEPT ![f] = Append(@, << f, piece >>)]
         /\ UNCHANGED log

\* line 176: log_f.write(stdout.decode())
WriteOut(f) ==
    /\ run = "running"
    /\ lpc[f] = "write_out"
    /\ BufferedWrite(f, "out", logInput[f].big)
    /\ lpc' = [lpc EXCEPT ![f] = "write_sep"]
    /\ UNCHANGED << auxVars, restVars, imgVars, run, logInput >>

\* line 177: log_f.write('\n')
WriteSep(f) ==
    /\ run = "running"
    /\ lpc[f] = "write_sep"
    /\ BufferedWrite(f, "sep", FALSE)
    /\ lpc' = [lpc EXCEPT ![f] = "close"]
    /\ UNCHANGED << auxVars, restVars, imgVars, run, logInput >>

\* line 175: leaving the with block closes log_f, which appends what is
\* left in its buffer in one write; a cancelled task closes it the same way
CloseLog(f) ==
    /\ \/ lpc[f] = "close" /\ run = "running"
       \/ lpc[f] = "cancel_close"
    /\ log' = log \o lbuf[f]
    /\ lbuf' = [lbuf EXCEPT ![f] = << >>]
    /\ lpc' = [lpc EXCEPT ![f] = IF lpc[f] = "close" THEN "done" ELSE "cancelled"]
    /\ UNCHANGED << auxVars, restVars, imgVars, run, logInput >>

\* ---------------------------------------------------------- process_image
\* lines 24-29: read_metadata (no handler around it), then the classifier;
\* a file without metadata returns False here
ImgStart(f) ==
    /\ run = "running"
    /\ ipc[f] = "start"
    /\ OnLoop(0, TRUE)
    /\ ipc' = [ipc EXCEPT ![f] =
                  IF read_metadata_raises(f) THEN "raised"
                  ELSE IF SrcHasMeta(f) THEN "open_dest" ELSE "done"]
    /\ UNCHANGED << auxVars, logVars, restVars, run, icontent, iret, iwrote, dfs >>

\* open(dest_path, 'wb'): the file is created, or cut to length zero
OpenWbDest(p) == [q \in DOMAIN dfs \cup { p } |-> IF q = p THEN << >> ELSE dfs[q]]

\* line 30: aiofiles.open(dest_path, 'wb')
ImgOpenDest(f) ==
    /\ run = "running"
    /\ ipc[f] = "open_dest"
    /\ dfs' = OpenWbDest(img_dest_path(f))
    /\ iwrote' = [iwrote EXCEPT ![f] = TRUE]
    /\ ipc' = [ipc EXCEPT ![f] = "open_src"]
    /\ UNCHANGED << auxVars, logVars, restVars, run, icontent, iret >>

\* line 31: aiofiles.open(file_path, 'rb')
ImgOpenSrc(f) ==
    /\ run = "running"
    /\ ipc[f] = "open_src"
    /\ ipc' = [ipc EXCEPT ![f] = "read"]
    /\ UNCHANGED << auxVars, logVars, restVars, run, icontent, iret, iwrote, dfs >>

\* line 32: content = await f.read()
ImgRead(f) ==
    /\ run = "running"
    /\ ipc[f] = "read"
    /\ icontent' = [icontent EXCEPT ![f] = Data(f)]
    /\ ipc' = [ipc EXCEPT ![f] = "write"]
    /\ UNCHANGED << auxVars, logVars, restVars, run, iret, iwrote, dfs >>

\* a write of bytes through a handle whose position is 0: the bytes replace
\* the start of the file, what the file holds beyond them stays
WriteAt0(old, bytes) ==
    [i \in 1 .. (IF Len(old) > Len(bytes) THEN Len(old) ELSE Len(bytes)) |->
        IF i <= Len(bytes) THEN bytes[i] ELSE old[i]]

\* lengths are counted in blocks of the size of the buffer of out_f: bytes
\* that do not fit the buffer go to the file at once, the others with the
\* flush of the close
Buffered(f) == Len(icontent[f]) <= 1

\* line 33: await out_f.write(content)
ImgWrite(f) ==
    /\ run = "running"
    /\ ipc[f] = "write"
    /\ dfs' = IF Buffered(f) THEN dfs
              ELSE [dfs EXCEPT ![img_dest_path(f)] = WriteAt0(@, icontent[f])]
    /\ ipc' = [ipc EXCEPT ![f] = "close"]
    /\ UNCHANGED << auxVars, logVars, restVars, run, icontent, iret, iwrote >>

\* lines 31-34: the ends of the two with blocks close f and out_f, then
\* return True
ImgClose(f) ==
    /\ run = "running"
    /\ ipc[f] = "close"
    /\ dfs' = IF Buffered(f)
              THEN [dfs EXCEPT ![img_dest_path(f)] = WriteAt0(@, icontent[f])]
              ELSE dfs
    /\ iret' = [iret EXCEPT ![f] = TRUE]
    /\ ipc' = [ipc EXCEPT ![f] = "done"]
    /\ UNCHANGED << auxVars, logVars, restVars, run, icontent, iwrote >>

\* ---------------------------------------------------------- process_files
\* line 145: every coroutine handed to gather has returned
RunReturns ==
    /\ run = "running"
    /\ OnLoop(0, TRUE)
    /\ \A a \in Archives : apc[a] \in { "closed", "absent" }
    /\ \A f \in LogFiles : lpc[f] \in { "done", "absent" }
    /\ \A f \in LogFiles : ipc[f] \in { "done", "absent" }
    /\ run' = "returned"
    /\ UNCHANGED << auxVars, logVars, imgVars, bytesIO, input, loop, archVars, progress, dirs, fs, taskVars >>

\* line 145: gather (return_exceptions not set) raises the first exception
\* of a task in process_files, which has no handler: process_files is left
\* while the other tasks are where they were
RunRaises ==
    /\ run = "running"
    /\ OnLoop(0, TRUE)
    /\ \/ \E a \in Archives : apc[a] = "raised"
       \/ \E f \in LogFiles : lpc[f] = "raised"
       \/ \E f \in LogFiles : ipc[f] = "raised"
    /\ run' = "unwinding"
    /\ UNCHANGED << auxVars, logVars, imgVars, bytesIO, input, loop, archVars, progress,
                    dirs, fs, taskVars >>

\* line 264: asyncio.run cancels every task still pending: CancelledError
\* is thrown at the await each one is suspended on, it passes
\* "except Exception", and the finally block of a task inside the try
\* statement runs. An open of the temp file that a pool thread has begun
\* is not stopped by the cancellation of the task that awaits it.
Cancelled(t) == tpc[t] \in InFlight

CancelEffects ==
    /\ apc' = [a \in Archives |->
                  IF apc[a] \in { "pending", "gathering" }
                  THEN "cancelled" ELSE apc[a]]
    /\ tpc' = [t \in Tasks |-> IF Cancelled(t) THEN "cancelled" ELSE tpc[t]]
    /\ fs' = [q \in DOMAIN fs \ { temp_file_path(t) : t \in { u \in Tasks : tpc[u] \in InTry } }
                 |-> fs[q]]
    /\ progress' = [a \in Archives |->
                       progress[a] + Cardinality({ t \in Tasks : t[1] = a /\ tpc[t] \in InTry })]
    /\ lpc' = [f \in LogFiles |->
                  CASE lpc[f] \in { "check", "tool" } -> "cancelled"
                    [] lpc[f] \in { "write_out", "write_sep", "close" } -> "cancel_close"
                    [] OTHER -> lpc[f]]
    /\ ipc' = [f \in LogFiles |->
                  IF ipc[f] \in { "start", "open_dest", "open_src", "read", "write", "close" }
                  THEN "cancelled" ELSE ipc[f]]
    /\ orphan' \in SUBSET { t \in Tasks : tpc[t] = "open_temp" }
    /\ UNCHANGED << bytesIO, input, loop, count, snap, sub_dir, fresh, verdict,
                    dirs, content, hnd, ret, wrote, logInput, lbuf, log,
                    icontent, iret, iwrote, dfs, args, bmethod, bpc, sem, poolVars >>

CancelAll ==
    /\ run = "unwinding"
    /\ run' = "raised"
    /\ CancelEffects

\* line 105: the pool thread finishes open(temp_file_path, 'wb') after the
\* task that awaited it was cancelled
OrphanOpen(t) ==
    /\ t \in orphan
    /\ fs' = OpenWb(temp_file_path(t), t)
    /\ orphan' = orphan \ { t }
    /\ UNCHANGED << args, bmethod, bpc, sem, poolVars, logVars, imgVars, bytesIO, input, run, loop,
                    archVars, progress, dirs, taskVars >>

\* line 264: SIGINT while asyncio.run drives the loop: the main task is
\* cancelled, gather hands the cancellation to every task it waits for
Interrupt ==
    /\ run = "running"
    /\ OnLoop(0, TRUE)
    /\ run' = "interrupted"
    /\ CancelEffects

Next ==
    \/ \E a \in Archives : OpenArchive(a)
    \/ \E a \in Archives : Probe(a)
    \/ \E a \in Archives : MakeDirs(a)
    \/ \E a \in Archives : Spawn(a)
    \/ \E a \in Archives : Aggregate(a)
    \/ \E a \in Archives : GatherRaises(a)
    \/ \E t \in Tasks : Extract(t)
    \/ \E t \in Tasks : OpenTemp(t)
    \/ \E t \in Tasks : WriteTemp(t)
    \/ \E t \in Tasks : Classify(t)
    \/ \E t \in Tasks : Copy(t)
    \/ \E t \in Tasks : Finally(t)
    \/ RunReturns
    \/ RunRaises
    \/ CancelAll
    \/ \E t \in Tasks : OrphanOpen(t)

Spec == Init /\ [][Next]_vars

SpecRun == InitRun /\ [][Next]_vars

SpecArchive == InitArchive /\ [][Next]_vars

\* the kinds in one fixed order: two scanned files are never the same file
ScanSeq == << "F1", "F2", "F3", "F4", "F5", "F6", "F7" >>

ScanIndex(k) == CHOOSE i \in DOMAIN ScanSeq : ScanSeq[i] = k

\* process_archive is handed the archive files among the scanned files
ArchiveOf(k) ==
    [name |-> [stem |-> SubSeq(Scan(k).name, 1, Len(Scan(k).name) - 1),
               ext |-> Scan(k).name[Len(Scan(k).name)]],
     corrupt |-> FALSE, entries |-> {}]

\* lines 131-143: the walk over a scan directory that holds files of the
\* kinds K, with or without the log_non_igmd option
InitScan(K, logging) ==
    /\ InitRest
    /\ InitImgIdle
    /\ logInput \in { li \in [LogFiles -> [kind : K, tool : { "ok", "nonzero", "nospawn" },
                                             big : BOOLEAN]] :
                         /\ \A f \in LogFiles : f + 1 \in LogFiles =>
                                ScanIndex(li[f].kind) < ScanIndex(li[f + 1].kind)
                         /\ \A f \in LogFiles :
                                IsArchiveFile(Scan(li[f].kind).name) => f \in Archives
                         /\ ~logging => \A f \in LogFiles : li[f].tool = "ok" /\ ~li[f].big }
    /\ bytesIO \in BOOLEAN
    /\ bytesIO => \E f \in LogFiles : IsArchiveFile(Scan(logInput[f].kind).name)
    /\ input = [a \in Archives |->
                   IF a \in LogFiles /\ IsArchiveFile(Scan(logInput[a].kind).name)
                   THEN ArchiveOf(logInput[a].kind) ELSE NoArchive]
    /\ apc = [a \in Archives |->
                 IF a \in LogFiles /\ IsArchiveFile(Scan(logInput[a].kind).name)
                 THEN "pending" ELSE "absent"]
    /\ ipc = [f \in LogFiles |->
                 IF IsImageFile(Scan(logInput[f].kind).name) THEN "start" ELSE "absent"]
    /\ lpc = [f \in LogFiles |-> IF logging THEN "check" ELSE "absent"]
    /\ lbuf = [f \in LogFiles |-> << >>]
    /\ log = << >>
    /\ dirs = {}

\* a run with logging enabled over a scan directory of loose files
LogKinds == { "F1", "F3", "F5", "F6", "F7" }

InitLog == InitScan(LogKinds, TRUE)

\* a run without logging over a scan directory of loose images
ImgKinds == { "F1", "F2", "F3", "F4" }

InitImg == InitScan(ImgKinds, FALSE)

NextImg ==
    \/ \E f \in LogFiles : ImgStart(f)
    \/ \E f \in LogFiles : ImgOpenDest(f)
    \/ \E f \in LogFiles : ImgOpenSrc(f)
    \/ \E f \in LogFiles : ImgRead(f)
    \/ \E f \in LogFiles : ImgWrite(f)
    \/ \E f \in LogFiles : ImgClose(f)
    \/ RunReturns
    \/ RunRaises
    \/ CancelAll

SpecImg == InitImg /\ [][NextImg]_vars

NextLog ==
    \/ \E a \in Archives : OpenArchive(a)
    \/ \E a \in Archives : MakeDirs(a)
    \/ \E a \in Archives : Spawn(a)
    \/ \E a \in Archives : Aggregate(a)
    \/ \E f \in LogFiles : ImgStart(f)
    \/ \E f \in LogFiles : ImgOpenDest(f)
    \/ \E f \in LogFiles : ImgOpenSrc(f)
    \/ \E f \in LogFiles : ImgRead(f)
    \/ \E f \in LogFiles : ImgWrite(f)
    \/ \E f \in LogFiles : ImgClose(f)
    \/ \E f \in LogFiles : CheckLogged(f)
    \/ \E f \in LogFiles : RunTool(f)
    \/ \E f \in LogFiles : WriteOut(f)
    \/ \E f \in LogFiles : WriteSep(f)
    \/ \E f \in LogFiles : CloseLog(f)
    \/ RunReturns
    \/ RunRaises
    \/ CancelAll

SpecLog == InitLog /\ [][NextLog]_vars

\* a run with logging enabled over loose images, one of them unreadable,
\* whose tool output fits the buffer of the log file object
ClassifyKinds == { "F1", "F3", "F4" }

InitClassify ==
    /\ InitScan(ClassifyKinds, TRUE)
    /\ \A f \in LogFiles : ~logInput[f].big

NextClassify ==
    \/ \E f \in LogFiles : CheckLogged(f)
    \/ \E f \in LogFiles : RunTool(f)
    \/ \E f \in LogFiles : WriteOut(f)
    \/ \E f \in LogFiles : WriteSep(f)
    \/ \E f \in LogFiles : CloseLog(f)
    \/ \E f \in LogFiles : ImgStart(f)
    \/ \E f \in LogFiles : ImgOpenDest(f)
    \/ \E f \in LogFiles : ImgOpenSrc(f)
    \/ \E f \in LogFiles : ImgRead(f)
    \/ \E f \in LogFiles : ImgWrite(f)
    \/ \E f \in LogFiles : ImgClose(f)
    \/ RunReturns
    \/ RunRaises
    \/ CancelAll

SpecClassify == InitClassify /\ [][NextClassify]_vars

\* ------------------------------------------------------ external signal
NextSignal ==
    \/ Next
    \/ Interrupt

SpecSignal == InitArchive /\ [][NextSignal]_vars

\* --------------------------------------------------- validate_directories
RECURSIVE CommonPrefix(_, _)
CommonPrefix(c, d) ==
    IF c = << >> \/ d = << >> \/ Head(c) # Head(d) THEN << >>
    ELSE << Head(c) >> \o CommonPrefix(Tail(c), Tail(d))

\* os.path.commonpath: the longest common sub-path, written without a
\* trailing separator
commonpath(p, q) == [comps |-> CommonPrefix(p.comps, q.comps), slash |-> FALSE]

\* line 214: equal once both are normalised
SameDir(p, q) == commonpath(p, p) = commonpath(q, q)

\* line 220: the common path is compared with the string as it was given
LogInside(l, d) == commonpath(l, d) = d

\* lines 206-223, and line 264 when none of the checks exits
Validate ==
    /\ run = "validating"
    /\ run' = IF ~args.scan_exists THEN "exit1"
              ELSE IF SameDir(args.scan, args.dest) THEN "exit1"
              ELSE IF args.log # NoLog
                      /\ (LogInside(args.log, args.scan) \/ LogInside(args.log, args.dest))
                   THEN "exit1"
              ELSE "running"
    /\ args' = [args EXCEPT !.dest_exists = @ \/ args.scan_exists]
    /\ UNCHANGED << bmethod, bpc, sem, orphan, poolVars, logVars, imgVars, restVars >>

NextValidate ==
    \/ Validate
    \/ RunReturns

SpecValidate == InitValidate /\ [][NextValidate]_vars

\* ------------------------------------- async_io_method, manual_chunking_method
InFlightBench == { e \in BenchEntries : bpc[e] = "inflight" }

Listed == { e \in BenchEntries : bpc[e] = "listed" }

\* lines 149-153: every image entry of the file; lines 180-186: the image
\* entries among the next chunk_size entries
Chunk ==
    IF bmethod = "async_io" THEN Listed
    ELSE { e \in Listed : \A m \in Listed : e < m + ChunkSize }

\* lines 147-153 and 177-186: asyncio.create_task for every entry of the
\* chunk, in a loop without an await; the semaphore is not acquired
BenchCreate ==
    /\ bmethod \in { "async_io", "chunking" }
    /\ InFlightBench = {}
    /\ Listed # {}
    /\ bpc' = [e \in BenchEntries |-> IF e \in Chunk THEN "inflight" ELSE bpc[e]]
    /\ UNCHANGED << args, bmethod, sem, orphan, poolVars, logVars, imgVars, restVars, run >>

\* lines 56-62: asyncio.to_thread(process_and_check_metadata, ...) returns
BenchTask(e) ==
    /\ bpc[e] = "inflight"
    /\ bpc' = [bpc EXCEPT ![e] = "done"]
    /\ UNCHANGED << args, bmethod, sem, orphan, poolVars, logVars, imgVars, restVars, run >>

\* lines 156-161 and 189-193: every task has been awaited, the method goes
\* on to its report
BenchFinish ==
    /\ bmethod \in { "async_io", "chunking" }
    /\ Listed = {} /\ InFlightBench = {}
    /\ bmethod' = "none"
    /\ UNCHANGED << args, bpc, sem, orphan, poolVars, logVars, imgVars, restVars, run >>

NextBench ==
    \/ BenchCreate
    \/ \E e \in BenchEntries : BenchTask(e)
    \/ BenchFinish

SpecBench == InitBench /\ [][NextBench]_vars

\* ------------------------------------------------------ thread_pool_method
PoolEntries == 1 .. MaxPoolEntries

\* lines 82-86: counts is reset, the CBZ file holds n image entries, the
\* pool has os.cpu_count() worker threads
InitPool ==
    /\ InitNoScan
    /\ run = "absent"
    /\ args = DefaultArgs
    /\ bmethod = "thread_pool"
    /\ \E n \in PoolEntries : bpc = [e \in BenchEntries |-> IF e <= n THEN "listed" ELSE "none"]
    /\ sem = SemaphoreCapacity
    /\ orphan = {}
    /\ counts = [k \in Keys |-> 0]
    /\ tmp = [e \in BenchEntries |-> NoLoad]
    /\ workers \in 1 .. MaxWorkers

Busy == { e \in BenchEntries : bpc[e] \in { "running", "loaded" } }

\* lines 89-93: executor.submit for the next image entry
PoolSubmit(e) ==
    /\ bmethod = "thread_pool"
    /\ bpc[e] = "listed"
    /\ \A m \in Listed : e <= m
    /\ bpc' = [bpc EXCEPT ![e] = "queued"]
    /\ UNCHANGED << args, bmethod, sem, orphan, poolVars, logVars, imgVars, restVars, run >>

\* a free worker thread takes the oldest work item of the queue and runs
\* lines 31-44: extraction to the temp file and check_metadata
PoolStart(e) ==
    /\ bpc[e] = "queued"
    /\ \A m \in BenchEntries : bpc[m] = "queued" => e <= m
    /\ Cardinality(Busy) < workers
    /\ bpc' = [bpc EXCEPT ![e] = "running"]
    /\ UNCHANGED << args, bmethod, sem, orphan, poolVars, logVars, imgVars, restVars, run >>

\* lines 45, 47, 53: counts[key] += 1 begins by loading counts[key]; the
\* key is found or not_found by the result of check_metadata, non_image
\* when the extraction raised
PoolLoad(e) ==
    /\ bpc[e] = "running"
    /\ \E k \in Keys : tmp' = [tmp EXCEPT ![e] = [key |-> k, val |-> counts[k]]]
    /\ bpc' = [bpc EXCEPT ![e] = "loaded"]
    /\ UNCHANGED << args, bmethod, sem, orphan, counts, workers, logVars, imgVars, restVars, run >>

\* lines 45, 47, 53: counts[key] += 1 ends by storing the loaded value
\* plus one; the future is then done
PoolStore(e) ==
    /\ bpc[e] = "loaded"
    /\ counts' = [counts EXCEPT ![tmp[e].key] = tmp[e].val + 1]
    /\ bpc' = [bpc EXCEPT ![e] = "done"]
    /\ UNCHANGED << args, bmethod, sem, orphan, tmp, workers, logVars, imgVars, restVars, run >>

\* lines 95-100: as_completed has handed back every future
PoolFinish ==
    /\ bmethod = "thread_pool"
    /\ \A e \in BenchEntries : bpc[e] \in { "none", "done" }
    /\ bmethod' = "none"
    /\ UNCHANGED << args, bpc, sem, orphan, poolVars, logVars, imgVars, restVars, run >>

NextPool ==
    \/ \E e \in BenchEntries : PoolSubmit(e)
    \/ \E e \in BenchEntries : PoolStart(e)
    \/ \E e \in BenchEntries : PoolLoad(e)
    \/ \E e \in BenchEntries : PoolStore(e)
    \/ PoolFinish

SpecPool == InitPool /\ [][NextPool]_vars

\* ------------------------------------------------------------------ claims
TempPhase == { "open_temp", "write_temp", "classify", "copy", "finally" }

Created(a) ==
    /\ sub_dir[a] # NoDir
    /\ apc[a] \in { "dircreated", "gathering", "closed", "raised", "cancelled" }

DirListing(d) == { p \in DOMAIN fs : p.dir = d }

\* C1: once an entry task has ended, the temporary path it wrote does not
\* exist, whatever the other entry tasks of the archive are doing.
C1_TempAbsentAfterTaskEnd ==
    \A t \in Tasks :
        (tpc[t] = "done") => temp_file_path(t) \notin DOMAIN fs

\* C2: two entry tasks that are in flight at the same time never use the
\* same temporary path.
C2_TempPathPrivate ==
    \A t1, t2 \in Tasks :
        (t1 # t2 /\ tpc[t1] \in TempPhase /\ tpc[t2] \in TempPhase)
            => temp_file_path(t1) # temp_file_path(t2)

\* C3: a failure inside an entry task never leaves the task as an
\* exception, and never makes process_archive end without a verdict once
\* its entry tasks have been started.
C3_EntryFailureContained ==
    \A a \in Archives :
        Children(a) # {} =>
            /\ apc[a] # "raised"
            /\ \A t \in Children(a) : tpc[t] # "raised"

\* C4: an error in one unit of process_files never stops another unit: no
\* archive and no entry task is cut off before it has completed.
C4_ErrorConfinedToUnit ==
    /\ \A a \in Archives : apc[a] # "cancelled"
    /\ \A t \in Tasks : tpc[t] # "cancelled"

\* C5: in the log file the tool output of a file is never followed by
\* bytes of another file's block: what follows it is its own separator.
C5_LogBlocksNotInterleaved ==
    \A i \in 1 .. Len(log) :
        (log[i][2] = "out" /\ i < Len(log)) => log[i + 1] = << log[i][1], "sep" >>

\* C6: a trigger archive gets the directory base-N with the smallest N >= 1
\* that did not exist when it was resolved; processed twice in a row against
\* an empty destination, the same name gets base-1 and then base-2, both
\* newly created.
C6_SmallestFreeSuffix ==
    /\ \A a \in Archives :
          (sub_dir[a] # NoDir /\ IsTrigger(input[a].name.stem)) =>
              /\ sub_dir[a].base = input[a].name.stem
              /\ sub_dir[a].n >= 1
              /\ sub_dir[a] \notin snap[a]
              /\ \A m \in 1 .. (sub_dir[a].n - 1) : Dir(input[a].name.stem, m) \in snap[a]
    /\ \A a, b \in Archives :
          ( /\ a # b
            /\ input[a].name.stem = input[b].name.stem
            /\ IsTrigger(input[a].name.stem)
            /\ Created(a) /\ Created(b)
            /\ snap[a] = {}
            /\ snap[b] = { sub_dir[a] } )
          => /\ sub_dir[a].n = 1 /\ sub_dir[b].n = 2
             /\ fresh[a] /\ fresh[b]

\* C6 witness: the first archive got base-1 in an empty destination and has
\* closed; the second one of the same name, opened after that, has just
\* created base-2.
C6_Witness ==
    \E a, b \in Archives :
        /\ a # b
        /\ input[a].name.stem = input[b].name.stem
        /\ IsTrigger(input[a].name.stem)
        /\ snap[a] = {}
        /\ snap[b] = { sub_dir[a] }
        /\ apc[a] = "closed" /\ sub_dir[a].n = 1
        /\ apc[b] = "dircreated" /\ sub_dir[b].n = 2
        /\ fresh[a] /\ fresh[b]

\* C7: archives with a trigger name that are processed concurrently each
\* create a directory that did not exist, so no two archives of the run
\* share the destination directory of a trigger archive.
C7_TriggerDirsDistinct ==
    \A a \in Archives :
        (Created(a) /\ IsTrigger(input[a].name.stem)) =>
            /\ fresh[a]
            /\ \A b \in Archives : (b # a /\ Created(b)) => sub_dir[b] # sub_dir[a]

\* C7 witness: two archives of the same trigger name both have entry tasks
\* in flight, in two different directories.
C7_Witness ==
    \E a, b \in Archives :
        /\ a # b
        /\ input[a].name.stem = input[b].name.stem
        /\ IsTrigger(input[a].name.stem)
        /\ apc[a] = "gathering" /\ apc[b] = "gathering"
        /\ \E t \in Children(a) : tpc[t] \in InFlight
        /\ \E t \in Children(b) : tpc[t] \in InFlight
        /\ sub_dir[a] # sub_dir[b]

\* C8: entry tasks of two different archives never write the same
\* destination path.
C8_NoCrossArchiveOverwrite ==
    \A t1, t2 \in Tasks :
        t1[1] # t2[1] => wrote[t1] \cap wrote[t2] = {}

\* C9: two different entries of one archive are never written to the same
\* destination path.
C9_EntryDestCollisionFree ==
    \A t1, t2 \in Tasks :
        (t1 # t2 /\ t1[1] = t2[1]) => wrote[t1] \cap wrote[t2] = {}

\* C10: when process_archive has returned for a trigger archive, its new
\* directory holds exactly the files of the entries whose own bytes carry
\* metadata, and no temp file.
C10_DirHoldsExactlyMatched ==
    \A a \in Archives :
        (apc[a] = "closed" /\ IsTrigger(input[a].name.stem)) =>
            DirListing(sub_dir[a]) =
                { dest_path(<< a, k >>) : k \in { e \in file_names(a) : Kind(e).meta } }

InFlightOf(a) == { t \in Children(a) : tpc[t] \in InFlight }

Running == { a \in Archives : apc[a] \in { "probing", "resolved", "dircreated", "gathering" } }

\* C11: whatever concurrency limit K is configured (every K below the
\* number of entries of the scan is tried), never more than K entry tasks
\* of one archive are in flight at once, and never more than K archives.
C11_AtMostKInFlight ==
    \A K \in 1 .. (MaxTasks - 1) :
        /\ \A a \in Archives : Cardinality(InFlightOf(a)) <= K
        /\ Cardinality(Running) <= K

\* C12: when process_archive has returned its verdict, no entry task of the
\* archive is still running, every recognised entry has had its task, and
\* the verdict is the OR of the values the tasks returned.
C12_VerdictIsOrAfterAll ==
    \A a \in Archives :
        apc[a] = "closed" =>
            /\ \A t \in Tasks : t[1] = a => tpc[t] \in { "absent", "done" }
            /\ \A k \in EntryKinds :
                   (k \in input[a].entries /\ Lower(Kind(k).ext) \in ImageExts)
                       => tpc[<< a, k >>] = "done"
            /\ verdict[a] = (\E t \in Tasks : t[1] = a /\ tpc[t] = "done" /\ ret[t])

\* C12 witness: an archive has returned True with one entry task that
\* returned True and one that returned False.
C12_Witness ==
    \E a \in Archives :
        /\ apc[a] = "closed" /\ verdict[a]
        /\ \E t1, t2 \in Children(a) : ret[t1] /\ ~ret[t2]

\* C13: while an entry task is at its extract, temp-write, classify or copy
\* step (or in its finally block), the destination directory of its archive
\* exists.
C13_DirBeforeEntryTasks ==
    \A t \in Tasks : tpc[t] \in InFlight => sub_dir[t[1]] \in dirs

\* C13 witness: an entry task is about to open its temporary file in a
\* directory that makedirs has just created.
C13_Witness ==
    \E t \in Tasks :
        /\ tpc[t] = "open_temp"
        /\ fresh[t[1]]
        /\ sub_dir[t[1]] \in dirs

\* C14: process_archive moves forward only: open, directory resolved,
\* directory created, entries processed, closed; it fails only at open,
\* and once its entry tasks are being processed it goes on to the verdict.
C14_ArchiveStateOrder ==
    [][\A a \in Archives :
          \/ apc'[a] = apc[a]
          \/ apc[a] = "pending" /\ apc'[a] \in { "probing", "resolved", "raised" }
          \/ apc[a] = "probing" /\ apc'[a] = "resolved"
          \/ apc[a] = "resolved" /\ apc'[a] = "dircreated"
          \/ apc[a] = "dircreated" /\ apc'[a] = "gathering"
          \/ apc[a] = "gathering" /\ apc'[a] = "closed"]_vars

\* C15: an archive that opens and holds no entry with a recognised image
\* extension still gets its destination directory, has no entry task, and
\* returns False.
C15_NoRecognisedEntries ==
    \A a \in Archives :
        ( /\ apc[a] = "closed"
          /\ \A k \in input[a].entries : Lower(Kind(k).ext) \notin ImageExts )
        => /\ sub_dir[a] \in dirs
           /\ \A t \in Tasks : t[1] = a => tpc[t] = "absent"
           /\ verdict[a] = FALSE

\* C15 witness: an archive that holds only notes.txt has been closed with
\* a newly created directory.
C15_Witness ==
    \E a \in Archives :
        /\ apc[a] = "closed"
        /\ input[a].entries = { "K5" }
        /\ fresh[a]
        /\ DirListing(sub_dir[a]) = {}
        /\ ~verdict[a]

\* the classifier reports metadata for scanned file f
Matched(f) == Scan(logInput[f].kind).readable /\ Scan(logInput[f].kind).meta

SameName(f) == { g \in LogFiles : img_dest_path(g) = img_dest_path(f) }

\* C16: process_image returns True exactly for the files the classifier
\* reports metadata for, and then dest_dir/<file name> exists (holding the
\* file's bytes when no other scanned file has that name); a file without
\* metadata writes nothing, and its name is absent from dest_dir unless a
\* matched file has the same name.
C16_CopiedIffMatched ==
    \A f \in LogFiles :
        /\ ipc[f] = "done" => (iret[f] <=> Matched(f))
        /\ (ipc[f] = "done" /\ iret[f]) =>
               /\ img_dest_path(f) \in DOMAIN dfs
               /\ SameName(f) = { f } => dfs[img_dest_path(f)] = Data(f)
        /\ ~Matched(f) => ~iwrote[f]
        /\ (\A g \in SameName(f) : ~Matched(g)) => img_dest_path(f) \notin DOMAIN dfs

\* C16 witness: a.png (matched) and b.PNG (not matched) have been
\* processed; dest_dir holds a.png and no b.PNG.
C16_Witness ==
    \E f, g \in LogFiles :
        /\ run = "returned"
        /\ logInput[f].kind = "F1" /\ ipc[f] = "done" /\ iret[f]
        /\ logInput[g].kind = "F3" /\ ipc[g] = "done" /\ ~iret[g]
        /\ DOMAIN dfs = { img_dest_path(f) }
        /\ dfs[img_dest_path(f)] = Data(f)

\* C17: a failure of the classifier on a loose image, the first
\* read_metadata included, never leaves process_image as an exception: the
\* task ends by returning False and has written nothing.
C17_ClassifierFailureCaught ==
    \A f \in LogFiles :
        /\ ipc[f] # "raised"
        /\ (ipc[f] = "done" /\ read_metadata_raises(f)) => (~iret[f] /\ ~iwrote[f])

\* C18: when two matched loose images of the same name have both been
\* copied, dest_dir/<name> holds the bytes of exactly one of them.
C18_LastWriterWins ==
    \A f, g \in LogFiles :
        ( /\ f # g
          /\ img_dest_path(f) = img_dest_path(g)
          /\ ipc[f] = "done" /\ iret[f]
          /\ ipc[g] = "done" /\ iret[g] )
        => dfs[img_dest_path(f)] \in { Data(f), Data(g) }

\* a file name with an extension
HasExt(name) == Len(name) >= 2

\* a loose image without metadata on which the external tool succeeds
Loggable(f) ==
    /\ HasExt(Scan(logInput[f].kind).name)
    /\ Ext(Scan(logInput[f].kind).name) \in ImageExts
    /\ ~Matched(f)
    /\ logInput[f].tool = "ok"

\* C19: every block in the log file is that of a loose image without
\* metadata on which the tool succeeded (none of a file with metadata, of
\* an archive file or of another file), and when the run has returned each
\* such image has exactly one block: its output and its separator.
C19_OneBlockPerLoggedImage ==
    /\ \A i \in 1 .. Len(log) : Loggable(log[i][1])
    /\ run = "returned" =>
           \A f \in LogFiles : Loggable(f) =>
               /\ Cardinality({ i \in 1 .. Len(log) : log[i] = << f, "out" >> }) = 1
               /\ Cardinality({ i \in 1 .. Len(log) : log[i] = << f, "sep" >> }) = 1

\* the external tool has been started for scanned file f
ToolInvoked(f) ==
    \/ lpc[f] \in { "write_out", "write_sep", "close", "cancel_close", "raised" }
    \/ lpc[f] = "done" /\ ~Matched(f)

\* C20: a file whose name has no extension, or an extension other than
\* jpg, jpeg, png, webp, cbz, cbr (in any case), is ignored: nothing is
\* copied for it, no process_archive runs for it, the tool is not started
\* for it and the log file gets nothing of it.
C20_OtherFilesIgnored ==
    \A f \in LogFiles :
        ( \/ ~HasExt(Scan(logInput[f].kind).name)
          \/ Ext(Scan(logInput[f].kind).name) \notin ImageExts \cup { "cbz", "cbr" } )
        => /\ ~iwrote[f]
           /\ ~ToolInvoked(f)
           /\ \A i \in 1 .. Len(log) : log[i][1] # f

\* C21: a non-zero exit of the external tool or a failure to spawn it
\* never leaves the log task as an exception, and puts nothing of that
\* file into the log file.
C21_ToolFailureContained ==
    \A f \in LogFiles :
        logInput[f].tool \in { "nonzero", "nospawn" } =>
            /\ lpc[f] # "raised"
            /\ \A i \in 1 .. Len(log) : log[i][1] # f

Ended(t) == tpc[t] \in { "done", "raised", "cancelled" }

\* C22: the progress counter of an archive counts the entry tasks that have
\* ended, one increment per task on every exit path; when all have ended
\* it equals the number of recognised entries.
C22_ProgressCountsEndedTasks ==
    \A a \in Archives :
        /\ progress[a] = Cardinality({ t \in Children(a) : Ended(t) })
        /\ (Children(a) # {} /\ \A t \in Children(a) : Ended(t)) =>
               progress[a] = Cardinality(file_names(a))

\* C26: when an entry task is about to call the classifier on its temp
\* path, the file exists and holds the bytes of the task's own entry.
C26_ClassifiesOwnBytes ==
    \A t \in Tasks :
        tpc[t] = "classify" =>
            /\ temp_file_path(t) \in DOMAIN fs
            /\ fs[temp_file_path(t)].data = Bytes(t)

\* C27: the step in which an entry task writes its destination file leaves
\* there exactly the bytes of the task's own entry.
C27_CopyWritesOwnBytes ==
    [][\A t \in Tasks :
          (tpc[t] = "copy" /\ tpc'[t] = "finally") =>
              /\ dest_path(t) \in DOMAIN fs'
              /\ fs'[dest_path(t)].data = Bytes(t)]_vars

\* C27 witness: a task has written its destination file while the shared
\* temp path holds the bytes of another entry.
C27_Witness ==
    \E t \in Tasks :
        /\ tpc[t] = "finally" /\ ret[t]
        /\ dest_path(t) \in DOMAIN fs
        /\ fs[dest_path(t)].data = Bytes(t)
        /\ temp_file_path(t) \in DOMAIN fs
        /\ fs[temp_file_path(t)].data \notin { Bytes(t), Empty }

\* the codec rejects the archive, or the name BytesIO does not resolve
Rejected(a) == input[a].corrupt \/ ~bytesIO

Nested(p, d) == CommonPrefix(p.comps, d.comps) = d.comps

\* C23: process_files is started only when the scan directory exists,
\* neither of scan_dir and dest_dir lies inside the other (or equals it),
\* and the log file, if given, lies inside neither of them; otherwise the
\* process has ended with exit status 1.
C23_NestedPathsRejected ==
    run \in { "running", "returned" } =>
        /\ ~Nested(args.dest, args.scan)
        /\ ~Nested(args.scan, args.dest)
        /\ args.log # NoLog =>
               ~Nested(args.log, args.scan) /\ ~Nested(args.log, args.dest)

\* C24: once the interrupt has been handled and every pool thread has
\* finished, no archive or entry task is running, and the temp path of
\* every entry task that was cancelled names no file.
C24_CleanupAfterSignal ==
    (run = "interrupted" /\ orphan = {}) =>
        /\ \A a \in Archives : apc[a] \notin { "pending", "probing", "resolved",
                                                "dircreated", "gathering" }
        /\ \A t \in Tasks : tpc[t] \notin InFlight
        /\ \A t \in Tasks : tpc[t] = "cancelled" => temp_file_path(t) \notin DOMAIN fs

\* C25: never more than SemaphoreCapacity tasks of one CBZ file are in
\* flight in async_io_method or manual_chunking_method.
C25_SemaphoreBoundsTasks ==
    Cardinality(InFlightBench) <= SemaphoreCapacity

\* C29: once process_files has been left, by returning or by raising, no
\* archive, entry, loose-image or log task is running and no temp file is
\* left.
C29_NoTaskOutlivesProcessFiles ==
    run \in { "returned", "unwinding", "raised" } =>
        /\ \A a \in Archives : apc[a] \notin { "pending", "probing", "resolved",
                                                "dircreated", "gathering" }
        /\ \A t \in Tasks : tpc[t] \notin InFlight
        /\ \A f \in LogFiles : lpc[f] \in { "absent", "done", "raised", "cancelled" }
        /\ \A f \in LogFiles : ipc[f] \in { "absent", "done", "raised", "cancelled" }
        /\ \A t \in Tasks : tpc[t] # "absent" => temp_file_path(t) \notin DOMAIN fs

\* C31: once every future of the CBZ file has completed, found + not_found
\* + non_image equals the number of entries submitted to the pool.
C31_CountsLoseNoUpdate ==
    (\A e \in BenchEntries : bpc[e] \in { "none", "done" }) =>
        counts["found"] + counts["not_found"] + counts["non_image"]
            = Cardinality({ e \in BenchEntries : bpc[e] = "done" })

====
